---- MODULE Spec2Model ----
(***************************************************************************)
(* Appointment booking core of Backend_AOS: the Appointment model's        *)
(* checkAvailability and pre-save hook, the unique index, and the          *)
(* appointment controller (create, update, cancel, archive, sweep).        *)
(*                                                                         *)
(* Conventions.  A time string is the sequence of its characters: a digit  *)
(* is its value and ':' is Colon (':' sorts after '9' in every string      *)
(* comparison MongoDB or JavaScript makes).  An instant is a number of     *)
(* minutes since 00:00 UTC of day 0; day 0 is a Monday.  The process runs  *)
(* in UTC (the image of the Dockerfile sets no TZ), so local days and ISO  *)
(* days agree.  A request date is [day, tod]: the string "YYYY-MM-DD" when *)
(* tod = 0 and "YYYY-MM-DDThh:mm:00Z" otherwise.                           *)
(***************************************************************************)
EXTENDS Integers, Sequences, FiniteSets, TLC

VARIABLES store, doctors, now, resp, reqs, raced, runs, timers

vars == <<store, doctors, now, resp, reqs, raced, runs, timers>>

-----------------------------------------------------------------------------
(* Bounds *)

MaxAppts == 1
MaxDay == 2
MaxReqs == 2
MaxBooked == 3
MaxPods == 2
MaxRuns == 2
MaxSweepAppts == 2

-----------------------------------------------------------------------------
(* Time strings *)

Colon == 10
MinutesPerHour == 60
MinutesPerDay == 1440

t0730 == <<0, 7, Colon, 3, 0>>
t0800 == <<0, 8, Colon, 0, 0>>
t0815 == <<0, 8, Colon, 1, 5>>
t800 == <<8, Colon, 0, 0>>
t0830 == <<0, 8, Colon, 3, 0>>
t830 == <<8, Colon, 3, 0>>
t1130 == <<1, 1, Colon, 3, 0>>
t1200 == <<1, 2, Colon, 0, 0>>
t1700 == <<1, 7, Colon, 0, 0>>
t1730 == <<1, 7, Colon, 3, 0>>
t2400 == <<2, 4, Colon, 0, 0>>
t080000 == <<0, 8, Colon, 0, 0, Colon, 0, 0>>

IsDigit(c) == c \in 0..9

\* Index of the first ':' at or after position i, Len(s)+1 when there is none.
RECURSIVE ColonFrom(_, _)
ColonFrom(s, i) ==
  IF i > Len(s) THEN Len(s) + 1
  ELSE IF s[i] = Colon THEN i
  ELSE ColonFrom(s, i + 1)

\* time.split(':')[k], k = 0 or 1
SplitPart(s, k) ==
  LET c1 == ColonFrom(s, 1)
      c2 == ColonFrom(s, c1 + 1)
  IN IF k = 0 THEN SubSeq(s, 1, c1 - 1) ELSE SubSeq(s, c1 + 1, c2 - 1)

\* parseInt of a run of digits
RECURSIVE ParseInt(_)
ParseInt(s) ==
  IF Len(s) = 0 THEN 0
  ELSE 10 * ParseInt(SubSeq(s, 1, Len(s) - 1)) + s[Len(s)]

\* /^([0-1]?[0-9]|2[0-3]):[0-5][0-9]$/
TimeRegex(s) ==
  LET h == SplitPart(s, 0)
  IN /\ Len(s) = Len(h) + 3
     /\ Len(h) \in {1, 2}
     /\ \A i \in 1..Len(s) : i # Len(h) + 1 => IsDigit(s[i])
     /\ Len(h) = 2 => (h[1] \in {0, 1} \/ (h[1] = 2 /\ h[2] \in 0..3))
     /\ s[Len(h) + 2] \in 0..5

\* String order of MongoDB's $lt / $gt and of sort({time: ...})
RECURSIVE StrLess(_, _)
StrLess(a, b) ==
  IF Len(b) = 0 THEN FALSE
  ELSE IF Len(a) = 0 THEN TRUE
  ELSE IF Head(a) # Head(b) THEN Head(a) < Head(b)
  ELSE StrLess(Tail(a), Tail(b))

\* Minutes since midnight of dayjs(time, 'HH:mm')
ClockMinutes(s) == ParseInt(SplitPart(s, 0)) * MinutesPerHour + ParseInt(SplitPart(s, 1))

-----------------------------------------------------------------------------
(* Dates *)

DayNames == <<"monday", "tuesday", "wednesday", "thursday", "friday", "saturday", "sunday">>

\* Mongoose's cast of the request's date string to a Date
CastDate(d) == d.day * MinutesPerDay + d.tod

\* date.toISOString().split('T')[0], as a day number
IsoDay(instant) == instant \div MinutesPerDay

\* dayjs(dateOnly).format('dddd').toLowerCase()
DayOfWeek(day) == DayNames[(day % 7) + 1]

\* dayjs().startOf('day')
StartOfToday == (now \div MinutesPerDay) * MinutesPerDay

-----------------------------------------------------------------------------
(* The appointment collection and its unique index *)

Ids == 1..Len(store)

NoId == 0

\* status: { $nin: ['cancelled'] }
NonCancelled(a) == a.status # "cancelled"

\* appointmentSchema.index({ doctor: 1, date: 1, time: 1 }, { unique: true }):
\* the write of document id (NoId for an insert) with this key is refused
\* when any other stored document, whatever its status, has the same key.
DuplicateKey(id, doctorId, date, time) ==
  \E j \in Ids : /\ j # id
                 /\ store[j].doctor = doctorId
                 /\ store[j].date = date
                 /\ store[j].time = time

-----------------------------------------------------------------------------
(* Appointment.checkAvailability *)

\* SlotOpen with <= for < at the end of the window: the end itself is bookable
SlotOpen_EndBookable(slot, dayOfWeek, time) ==
  /\ slot.day = dayOfWeek
  /\ ClockMinutes(time) >= ClockMinutes(slot.startTime)
  /\ ClockMinutes(time) <= ClockMinutes(slot.endTime)

\* doctor.availability.find(slot => ...)
SlotOpen(slot, dayOfWeek, time) ==
  /\ slot.day = dayOfWeek
  /\ ClockMinutes(time) >= ClockMinutes(slot.startTime)
  /\ ClockMinutes(time) < ClockMinutes(slot.endTime)

\* Candidates without '_id: { $ne: appointmentId }'
Candidates_IncludingSelf(doctorId, date, appointmentId) ==
  {j \in Ids : /\ store[j].doctor = doctorId
               /\ store[j].date = date
               /\ NonCancelled(store[j])}

\* The documents the three findOne queries range over:
\* same doctor, same date value, not cancelled, _id: { $ne: appointmentId }
Candidates(doctorId, date, appointmentId) ==
  {j \in Ids : /\ store[j].doctor = doctorId
               /\ store[j].date = date
               /\ NonCancelled(store[j])
               /\ j # appointmentId}

\* findOne({..., time: time})
ExistingAppointment(doctorId, date, time, appointmentId) ==
  {j \in Candidates(doctorId, date, appointmentId) : store[j].time = time}

\* findOne({..., time: { $lt: time }}).sort({ time: -1 })
PreviousAppointment(doctorId, date, time, appointmentId) ==
  LET below == {j \in Candidates(doctorId, date, appointmentId) :
                  StrLess(store[j].time, time)}
  IN {j \in below : \A k \in below : ~StrLess(store[j].time, store[k].time)}

\* findOne({..., time: { $gt: time }}).sort({ time: 1 })
NextAppointment(doctorId, date, time, appointmentId) ==
  LET above == {j \in Candidates(doctorId, date, appointmentId) :
                  StrLess(time, store[j].time)}
  IN {j \in above : \A k \in above : ~StrLess(store[k].time, store[j].time)}

\* The 30 minutes of 'timeDiff < 30'
BufferMinutes == 30

\* The 30 of 'appointmentMinute % 30'
SlotMinutes == 30

OpeningHour == 8

ClosingHour == 17

\* PastDateCheck with isSameOrBefore for isBefore: today is past
PastDateCheck_TodayIsPast(date) ==
  IF IsoDay(date) * MinutesPerDay <= StartOfToday THEN "PastDate" ELSE "OK"

\* Lines 175-178: the date, without its time of day, against today
PastDateCheck(date) ==
  IF IsoDay(date) * MinutesPerDay < StartOfToday THEN "PastDate" ELSE "OK"

\* GridCheck comparing the closing hour with > for >=: 17:00 passes
GridCheck_ClosingHourBookable(time) ==
  LET appointmentHour == ParseInt(SplitPart(time, 0))
      appointmentMinute == ParseInt(SplitPart(time, 1))
  IN IF appointmentHour < OpeningHour \/ appointmentHour > ClosingHour
       THEN "OutsideClinicHours"
     ELSE IF appointmentMinute % SlotMinutes # 0 THEN "InvalidGranularity"
     ELSE IF appointmentHour = ClosingHour /\ appointmentMinute > 0
       THEN "OutsideClinicHours"
     ELSE "OK"

\* Lines 180-196: the clinic's hours and the 30-minute grid
GridCheck(time) ==
  LET appointmentHour == ParseInt(SplitPart(time, 0))
      appointmentMinute == ParseInt(SplitPart(time, 1))
  IN IF appointmentHour < OpeningHour \/ appointmentHour >= ClosingHour
       THEN "OutsideClinicHours"
     ELSE IF appointmentMinute % SlotMinutes # 0 THEN "InvalidGranularity"
     ELSE IF appointmentHour = ClosingHour /\ appointmentMinute > 0
       THEN "OutsideClinicHours"
     ELSE "OK"

\* Lines 198-221: a window of the doctor on that weekday around that time
WindowCheck(doctorId, date, time) ==
  IF \E i \in 1..Len(doctors[doctorId]) :
       SlotOpen(doctors[doctorId][i], DayOfWeek(IsoDay(date)), time)
    THEN "OK"
    ELSE "NoAvailability"

\* Lines 223-269: the exact match, then the two neighbours
ConflictCheck(doctorId, date, time, appointmentId) ==
  LET prev == PreviousAppointment(doctorId, date, time, appointmentId)
      next == NextAppointment(doctorId, date, time, appointmentId)
  IN IF ExistingAppointment(doctorId, date, time, appointmentId) # {}
       THEN "SlotTaken"
     ELSE IF \E j \in prev :
                ClockMinutes(time) - ClockMinutes(store[j].time) < BufferMinutes
       THEN "InsufficientBuffer"
     ELSE IF \E j \in next :
                ClockMinutes(store[j].time) - ClockMinutes(time) < BufferMinutes
       THEN "InsufficientBuffer"
     ELSE "OK"

\* The outcome of checkAvailability(doctorId, date, time, appointmentId):
\* "OK" when it returns true, otherwise the kind of the error it throws.
\* date is the instant the query casts its date argument to.
checkAvailability(doctorId, date, time, appointmentId) ==
  IF doctorId \notin DOMAIN doctors THEN "DoctorNotFound"
  ELSE IF PastDateCheck(date) # "OK" THEN PastDateCheck(date)
  ELSE IF GridCheck(time) # "OK" THEN GridCheck(time)
  ELSE IF WindowCheck(doctorId, date, time) # "OK" THEN WindowCheck(doctorId, date, time)
  ELSE ConflictCheck(doctorId, date, time, appointmentId)

-----------------------------------------------------------------------------
(* Requests and responses *)

NoDate == [day |-> 0 - 1, tod |-> 0]
NoTime == <<>>
NoStatus == ""
NoPatient == ""
NoReason == ""

\* Reasons: two of at least 10 characters, one of them sent with spaces
\* around it, and one that is too short.
ReasonA == "annual checkup"
ReasonB == "follow-up visit"
ReasonPadded == "  follow-up visit "
ReasonShort == "flu"

\* Notes: none, and one sent with spaces around it
NoNotes == ""
NotesA == "bring lab results"
NotesPadded == " bring lab results  "

\* String.prototype.trim, and the schema's 'trim: true'
Trim(reason) ==
  IF reason = ReasonPadded THEN ReasonB
  ELSE IF reason = NotesPadded THEN NotesA
  ELSE reason

\* The schema's 'minlength: 10' of reason
ReasonValid(reason) == reason \in {ReasonA, ReasonB}

Doctor1 == [role |-> "Doctor", id |-> "D1"]
Doctor2 == [role |-> "Doctor", id |-> "D2"]
Patient1 == [role |-> "User", id |-> "P1"]
Patient2 == [role |-> "User", id |-> "P2"]

Actors == {Doctor1, Doctor2, Patient1, Patient2}

\* Patient2 books nothing: an authenticated user who owns no appointment.
CreateActors == {Doctor1, Doctor2, Patient1}

DoctorIds == {"D1", "D2", "D9"}

MorningMinute == 7 * MinutesPerHour
EveningMinute == 18 * MinutesPerHour
NoonMinute == 12 * MinutesPerHour

DateInputs == [day : 0..MaxDay, tod : {0, NoonMinute}]

TimeInputs == {t0730, t0800, t0815, t0830, t1700, t2400, t080000}

StatusInputs == {"pending", "confirmed", "cancelled", "completed", "no-show", "archived"}

\* The last response: the operation, the kind of its answer, the cause of a
\* refusal, and for a sweep run the count it returns and the clock's day of
\* the run.
NoResp == [op |-> "none", kind |-> "none", cause |-> "none", n |-> 0, day |-> 0]

Resp(op, kind, cause) == [op |-> op, kind |-> kind, cause |-> cause, n |-> 0, day |-> 0]

\* Availability of the doctors of the directory: D1 works Monday to Wednesday
\* mornings, D2 has declared no window, D9 is no doctor.
Directory ==
  [d \in {"D1", "D2"} |->
     IF d = "D1"
       THEN << [day |-> "monday", startTime |-> t0800, endTime |-> t1200],
               [day |-> "tuesday", startTime |-> t0800, endTime |-> t1200],
               [day |-> "wednesday", startTime |-> t0800, endTime |-> t1200] >>
       ELSE << >>]

-----------------------------------------------------------------------------
(* The Doctor model's validation of an availability, and updateAvailability *)

\* availabilitySchema: the day of the enum, both times of the HH:mm format
WindowFields(slot) ==
  /\ \E i \in 1..Len(DayNames) : DayNames[i] = slot.day
  /\ TimeRegex(slot.startTime)
  /\ TimeRegex(slot.endTime)

\* availabilitySchema.pre('validate'): the end after the start, and the
\* hours 8:00 - 17:00, from split(':').map(Number)
WindowOrder(slot) ==
  LET startHour == ParseInt(SplitPart(slot.startTime, 0))
      startMinute == ParseInt(SplitPart(slot.startTime, 1))
      endHour == ParseInt(SplitPart(slot.endTime, 0))
      endMinute == ParseInt(SplitPart(slot.endTime, 1))
  IN /\ ~(startHour > endHour \/ (startHour = endHour /\ startMinute >= endMinute))
     /\ ~(startHour < OpeningHour \/ endHour > ClosingHour)

\* doctorSchema.availability.validate: days.length === new Set(days).size
NoDuplicateDays(availability) ==
  Cardinality({availability[i].day : i \in 1..Len(availability)}) = Len(availability)

\* Does the availability pass the model's validation?
ValidAvailability(availability) ==
  /\ \A i \in 1..Len(availability) :
       WindowFields(availability[i]) /\ WindowOrder(availability[i])
  /\ NoDuplicateDays(availability)

\* doctor.controller.js updateAvailability: the doctor replaces their own
\* availability; the update runs the model's validators.
updateAvailability(actor, doctorId, availability) ==
  /\ IF actor.id # doctorId
       THEN resp' = Resp("availability", "Forbidden", "Forbidden") /\ doctors' = doctors
     ELSE IF doctorId \notin DOMAIN doctors
       THEN resp' = Resp("availability", "NotFound", "NotFound") /\ doctors' = doctors
     ELSE IF ~ValidAvailability(availability)
       THEN resp' = Resp("availability", "ValidationError", "ValidationError") /\ doctors' = doctors
     ELSE /\ resp' = Resp("availability", "Updated", "none")
          /\ doctors' = [doctors EXCEPT ![doctorId] = availability]
  /\ UNCHANGED <<store, now, reqs, raced, runs, timers>>

-----------------------------------------------------------------------------
(* document.save(): validation, the pre('save') hook, then the write *)

\* The schema's validators of 'time' and 'reason'
Validate(doc) ==
  IF TimeRegex(doc.time) /\ ReasonValid(doc.reason) THEN "OK" ELSE "ValidationError"

\* preSave without the call of checkAvailability
preSave_Unchecked(id, doc, isModified) == "OK"

\* appointmentSchema.pre('save'): checkAvailability when date or time is modified
\* (the controller never changes 'doctor' of a stored document).
preSave(id, doc, isModified) ==
  IF isModified THEN checkAvailability(doc.doctor, doc.date, doc.time, id) ELSE "OK"

\* The outcome of save() of document id with contents doc: "OK" when the write
\* is applied, else <<kind of the error as the controllers' catch reports it,
\* its cause>>.
SaveOutcome(id, doc, isModified) ==
  IF Validate(doc) # "OK" THEN <<"ValidationError", "ValidationError">>
  ELSE IF preSave(id, doc, isModified) # "OK"
    THEN <<"InternalError", preSave(id, doc, isModified)>>
  ELSE IF DuplicateKey(id, doc.doctor, doc.date, doc.time)
    THEN <<"InternalError", "DuplicateKey">>
  ELSE <<"OK", "none">>

-----------------------------------------------------------------------------
(* createAppointment *)

NewAppointment(patient, doctorId, date, time) ==
  [patient |-> patient, doctor |-> doctorId, date |-> CastDate(date), time |-> time,
   status |-> "pending", isArchived |-> FALSE, reason |-> Trim(ReasonA),
   notes |-> NoNotes]

\* Lines 44-95: the controller's own checks; "OK" or the kind of its response.
CreateChecks(actor, doctorId, date, time, patientId) ==
  IF actor.role = "Doctor" /\ actor.id # doctorId THEN "Forbidden"
  ELSE IF actor.role = "Doctor" /\ patientId = NoPatient THEN "MissingFields"
  ELSE IF ~TimeRegex(time) THEN "MalformedTime"
  ELSE checkAvailability(doctorId, CastDate(date), time, NoId)

\* createAppointment storing the document before the controller's checks
createAppointment_StoresRefused(actor, doctorId, date, time, patientId) ==
  LET checks == CreateChecks(actor, doctorId, date, time, patientId)
      newId == Len(store) + 1
      doc == NewAppointment(IF actor.role = "Doctor" THEN patientId ELSE actor.id,
                            doctorId, date, time)
      saved == SaveOutcome(newId, doc, TRUE)
  IN /\ IF checks # "OK"
          THEN /\ resp' = Resp("create", checks, checks)
               /\ store' = Append(store, doc)
          ELSE IF saved[1] # "OK"
            THEN /\ resp' = Resp("create", saved[1], saved[2])
                 /\ store' = store
            ELSE /\ resp' = Resp("create", "Created", "none")
                 /\ store' = Append(store, doc)
     /\ UNCHANGED <<doctors, now, reqs, raced, runs, timers>>

createAppointment(actor, doctorId, date, time, patientId) ==
  LET checks == CreateChecks(actor, doctorId, date, time, patientId)
      newId == Len(store) + 1
      doc == NewAppointment(IF actor.role = "Doctor" THEN patientId ELSE actor.id,
                            doctorId, date, time)
      saved == SaveOutcome(newId, doc, TRUE)
  IN /\ IF checks # "OK"
          THEN /\ resp' = Resp("create", checks, checks)
               /\ store' = store
          ELSE IF saved[1] # "OK"
            THEN /\ resp' = Resp("create", saved[1], saved[2])
                 /\ store' = store
            ELSE /\ resp' = Resp("create", "Created", "none")
                 /\ store' = Append(store, doc)
     /\ UNCHANGED <<doctors, now, reqs, raced, runs, timers>>

-----------------------------------------------------------------------------
(* updateAppointment *)

\* IsOwner without the comparison of the doctor's identity
IsOwner_AnyDoctor(actor, a) ==
  IF actor.role = "Doctor" THEN TRUE ELSE a.patient = actor.id

\* isOwner of updateAppointment and cancelAppointment
IsOwner(actor, a) ==
  IF actor.role = "Doctor" THEN a.doctor = actor.id ELSE a.patient = actor.id

\* HasPassed comparing the date alone, without the time
HasPassed_DateOnly(a) == now > IsoDay(a.date) * MinutesPerDay

\* now.isAfter(dayjs(`${date.toISOString().split('T')[0]}T${time}`))
HasPassed(a) == now > IsoDay(a.date) * MinutesPerDay + ClockMinutes(a.time)

\* StatusAccepted without the test of the current status on its first branch
StatusAccepted_AnyToConfirmed(a, status) ==
  \/ status \in {"confirmed", "cancelled"}
  \/ /\ a.status = "confirmed"
     /\ \/ HasPassed(a) /\ status \in {"completed", "cancelled", "no-show"}
        \/ ~HasPassed(a) /\ status = "cancelled"

\* Lines 186-212 for a doctor's request: is the requested status accepted?
StatusAccepted(a, status) ==
  \/ a.status = "pending" /\ status \in {"confirmed", "cancelled"}
  \/ /\ a.status = "confirmed"
     /\ \/ HasPassed(a) /\ status \in {"completed", "cancelled", "no-show"}
        \/ ~HasPassed(a) /\ status = "cancelled"

\* Lines 187, 194-200: the status is set, and the flag when the date has passed
ApplyStatus(a, status) ==
  IF a.status = "confirmed" /\ HasPassed(a)
    THEN [a EXCEPT !.status = status, !.isArchived = TRUE]
    ELSE [a EXCEPT !.status = status]

\* Line 161-162: does the request change the date or the time?
AsksNewSlot(a, date, time) ==
  \/ date # NoDate /\ (date.tod # 0 \/ date.day # IsoDay(a.date))
  \/ time # NoTime /\ time # a.time

\* Unmodifiable without the test for 'completed'
Unmodifiable_CancelledOnly(a) == a.status = "cancelled"

\* Lines 152-158: a cancelled or completed appointment cannot be modified
Unmodifiable(a) == a.status \in {"cancelled", "completed"}

\* The handler, for a request that carries any of date, time, reason, status,
\* notes
updateAppointmentBody(actor, id, date, time, reason, status, notes) ==
  /\ UNCHANGED <<doctors, now, reqs, raced, runs, timers>>
  /\ IF id \notin Ids
       THEN resp' = Resp("update", "NotFound", "NotFound") /\ store' = store
     ELSE LET a == store[id]
              newDate == IF date # NoDate THEN CastDate(date) ELSE a.date
              newTime == IF time # NoTime THEN time ELSE a.time
              check == IF AsksNewSlot(a, date, time)
                         THEN checkAvailability(a.doctor, newDate, newTime, id)
                         ELSE "OK"
              newReason == IF reason # NoReason THEN Trim(reason) ELSE a.reason
              newNotes == IF notes # NoNotes THEN Trim(notes) ELSE a.notes
              edited == [a EXCEPT !.date = newDate, !.time = newTime, !.reason = newReason]
              annotated(d) == [d EXCEPT !.notes = newNotes]
              doc == annotated(IF status # NoStatus THEN ApplyStatus(edited, status)
                               ELSE edited)
              saved == SaveOutcome(id, doc, newDate # a.date \/ newTime # a.time)
              refuse(kind) == resp' = Resp("update", kind, kind) /\ store' = store
          IN IF ~IsOwner(actor, a) THEN refuse("Forbidden")
             ELSE IF Unmodifiable(a) THEN refuse("TerminalStatus")
             ELSE IF check # "OK" THEN refuse(check)
             ELSE IF status # NoStatus /\ actor.role = "Doctor"
                       /\ ~StatusAccepted(edited, status)
               THEN refuse("InvalidTransition")
             ELSE IF status # NoStatus /\ actor.role # "Doctor" THEN refuse("Forbidden")
             ELSE IF saved[1] # "OK"
               THEN resp' = Resp("update", saved[1], saved[2]) /\ store' = store
             ELSE /\ resp' = Resp("update", "Updated",
                                  IF AsksNewSlot(a, date, time) THEN "Checked" ELSE "none")
                  /\ store' = [store EXCEPT ![id] = doc]

\* The handler, for a request without notes
updateAppointmentFields(actor, id, date, time, reason, status) ==
  updateAppointmentBody(actor, id, date, time, reason, status, NoNotes)

\* The handler, for a request without a reason
updateAppointment(actor, id, date, time, status) ==
  updateAppointmentFields(actor, id, date, time, NoReason, status)

-----------------------------------------------------------------------------
(* cancelAppointment *)

\* TodayOrEarlier with isBefore for isSameOrBefore: today's appointments pass
TodayOrEarlier_PastOnly(a) == IsoDay(a.date) * MinutesPerDay < StartOfToday

\* dayjs(appointment.date).startOf('day').isSameOrBefore(dayjs().startOf('day'))
TodayOrEarlier(a) == IsoDay(a.date) * MinutesPerDay <= StartOfToday

\* cancelAppointment taking the appointment out of the archive as well
cancelAppointment_Unarchives(actor, id) ==
  /\ UNCHANGED <<doctors, now, reqs, raced, runs, timers>>
  /\ IF id \notin Ids
       THEN resp' = Resp("cancel", "NotFound", "NotFound") /\ store' = store
     ELSE LET a == store[id]
              refuse(kind) == resp' = Resp("cancel", kind, kind) /\ store' = store
          IN IF ~IsOwner(actor, a) THEN refuse("Forbidden")
             ELSE IF a.status \in {"cancelled", "completed"} THEN refuse("TerminalStatus")
             ELSE IF actor.role # "Doctor" /\ TodayOrEarlier(a)
               THEN resp' = Resp("cancel", "Forbidden", "TodayOrEarlier") /\ store' = store
             ELSE /\ resp' = Resp("cancel", "Cancelled", "none")
                  /\ store' = [store EXCEPT ![id].status = "cancelled",
                                         ![id].isArchived = FALSE]

cancelAppointment(actor, id) ==
  /\ UNCHANGED <<doctors, now, reqs, raced, runs, timers>>
  /\ IF id \notin Ids
       THEN resp' = Resp("cancel", "NotFound", "NotFound") /\ store' = store
     ELSE LET a == store[id]
              refuse(kind) == resp' = Resp("cancel", kind, kind) /\ store' = store
          IN IF ~IsOwner(actor, a) THEN refuse("Forbidden")
             ELSE IF a.status \in {"cancelled", "completed"} THEN refuse("TerminalStatus")
             ELSE IF actor.role # "Doctor" /\ TodayOrEarlier(a)
               THEN resp' = Resp("cancel", "Forbidden", "TodayOrEarlier") /\ store' = store
             ELSE /\ resp' = Resp("cancel", "Cancelled", "none")
                  /\ store' = [store EXCEPT ![id].status = "cancelled"]

-----------------------------------------------------------------------------
(* archiveAppointment *)

\* archiveAppointment deleting the document in place of flagging it
archiveAppointment_Deletes(actor, id) ==
  /\ UNCHANGED <<doctors, now, reqs, raced, runs, timers>>
  /\ IF id \notin Ids
       THEN resp' = Resp("archive", "NotFound", "NotFound") /\ store' = store
     ELSE LET a == store[id]
              refuse(kind) == resp' = Resp("archive", kind, kind) /\ store' = store
          IN IF actor.role # "Doctor" \/ a.doctor # actor.id THEN refuse("Forbidden")
             ELSE IF a.status \notin {"completed", "cancelled", "no-show"}
               THEN refuse("NotTerminal")
             ELSE /\ resp' = Resp("archive", "Archived", "none")
                  /\ store' = SubSeq(store, 1, id - 1) \o SubSeq(store, id + 1, Len(store))

archiveAppointment(actor, id) ==
  /\ UNCHANGED <<doctors, now, reqs, raced, runs, timers>>
  /\ IF id \notin Ids
       THEN resp' = Resp("archive", "NotFound", "NotFound") /\ store' = store
     ELSE LET a == store[id]
              refuse(kind) == resp' = Resp("archive", kind, kind) /\ store' = store
          IN IF actor.role # "Doctor" \/ a.doctor # actor.id THEN refuse("Forbidden")
             ELSE IF a.status \notin {"completed", "cancelled", "no-show"}
               THEN refuse("NotTerminal")
             ELSE /\ resp' = Resp("archive", "Archived", "none")
                  /\ store' = [store EXCEPT ![id].isArchived = TRUE]

-----------------------------------------------------------------------------
(* updatePastAppointments, the archival sweep, run to completion *)

\* Selected with isArchived: true for isArchived: false
Selected_ArchivedOnly(yesterday) ==
  {j \in Ids : /\ store[j].status = "confirmed"
               /\ store[j].date < yesterday
               /\ store[j].isArchived}

\* find({ status: 'confirmed', date: { $lt: yesterday }, isArchived: false })
Selected(yesterday) ==
  {j \in Ids : /\ store[j].status = "confirmed"
               /\ store[j].date < yesterday
               /\ ~store[j].isArchived}

\* Lines 427-436: yesterday is the clock's instant less one day
PastAppointments == Selected(now - MinutesPerDay)

\* Swept without line 441: the status alone
Swept_NotArchived(a) == [a EXCEPT !.status = "completed"]

\* Lines 440-441: marked completed and archived
Swept(a) == [a EXCEPT !.status = "completed", !.isArchived = TRUE]

\* The value a run returns and the day it ran
SweepResp(count) == [Resp("sweep", "Swept", "none") EXCEPT !.n = count, !.day = IsoDay(now)]

updatePastAppointments ==
  /\ store' = [j \in Ids |-> IF j \in PastAppointments THEN Swept(store[j]) ELSE store[j]]
  /\ resp' = SweepResp(Cardinality(PastAppointments))
  /\ UNCHANGED <<doctors, now, reqs, raced, runs, timers>>

-----------------------------------------------------------------------------
(* The scheduler of every replica of the deployment, and the sweep step by   *)
(* step: updatePastAppointments computes its cutoff when it is called, awaits *)
(* the query, then awaits one save per selected document.                    *)

NoTimer == 0 - 1

\* scheduledTime.setHours(1, 0, 0, 0)
SweepHour == 1

\* NextRunAt with < for <= at line 464: at 01:00 sharp the timer is due at once
NextRunAt_SameInstant ==
  LET scheduledTime == IsoDay(now) * MinutesPerDay + SweepHour * MinutesPerHour
  IN IF scheduledTime < now THEN scheduledTime + MinutesPerDay ELSE scheduledTime

\* Lines 459-469: the next 01:00
NextRunAt ==
  LET scheduledTime == IsoDay(now) * MinutesPerDay + SweepHour * MinutesPerHour
  IN IF scheduledTime <= now THEN scheduledTime + MinutesPerDay ELSE scheduledTime

\* A call of updatePastAppointments by replica pod: lines 427-429 have run
StartRun(pod) ==
  [pod |-> pod, pc |-> "find", yesterday |-> now - MinutesPerDay,
   selected |-> {}, todo |-> << >>, failed |-> FALSE]

\* The ids of a set in ascending order, the order find() returns them in
RECURSIVE InOrder(_)
InOrder(S) ==
  IF S = {} THEN << >>
  ELSE LET least == CHOOSE j \in S : \A k \in S : j <= k
       IN <<least>> \o InOrder(S \ {least})

\* Lines 454-479, called when the replica has connected to the database:
\* the start-up run, and the timer for the first scheduled run.
initAppointmentStatusScheduler(pod) ==
  /\ timers[pod] = NoTimer
  /\ Len(runs) < MaxRuns
  /\ runs' = Append(runs, StartRun(pod))
  /\ timers' = [timers EXCEPT ![pod] = NextRunAt]
  /\ UNCHANGED <<store, doctors, now, resp, reqs, raced>>

\* Lines 472-477: the timer fires; the next run is due 24 hours later.
TimerFires(pod) ==
  /\ timers[pod] # NoTimer
  /\ now >= timers[pod]
  /\ Len(runs) < MaxRuns
  /\ runs' = Append(runs, StartRun(pod))
  /\ timers' = [timers EXCEPT ![pod] = @ + MinutesPerDay]
  /\ UNCHANGED <<store, doctors, now, resp, reqs, raced>>

\* Lines 432-436: the query is answered
SweepFind(r) ==
  /\ runs[r].pc = "find"
  /\ runs' = [runs EXCEPT ![r].pc = "save",
                          ![r].selected = Selected(runs[r].yesterday),
                          ![r].todo = InOrder(Selected(runs[r].yesterday))]
  /\ UNCHANGED <<store, doctors, now, resp, reqs, raced, timers>>

\* Lines 438-444: one document is saved; only status and isArchived are written
SweepSave(r) ==
  /\ runs[r].pc = "save"
  /\ runs[r].todo # << >>
  /\ store' = [store EXCEPT ![Head(runs[r].todo)] = Swept(@)]
  /\ runs' = [runs EXCEPT ![r].todo = Tail(@)]
  /\ UNCHANGED <<doctors, now, resp, reqs, raced, timers>>

\* Lines 442, 447-450: a save throws; the run is over and returns 0
SweepSaveFails(r) ==
  /\ runs[r].pc = "save"
  /\ runs[r].todo # << >>
  /\ runs' = [runs EXCEPT ![r].pc = "done", ![r].failed = TRUE]
  /\ resp' = SweepResp(0)
  /\ UNCHANGED <<store, doctors, now, reqs, raced, timers>>

\* Line 446: the run returns the number of documents it selected
SweepReturn(r) ==
  /\ runs[r].pc = "save"
  /\ runs[r].todo = << >>
  /\ runs' = [runs EXCEPT ![r].pc = "done"]
  /\ resp' = SweepResp(Cardinality(runs[r].selected))
  /\ UNCHANGED <<store, doctors, now, reqs, raced, timers>>

\* The clock, six hours at a time: 07:00, 13:00, 19:00, 01:00.  A due timer
\* fires before the clock moves on.
ClockStep == 6 * MinutesPerHour

Tock ==
  /\ \A pod \in DOMAIN timers : timers[pod] = NoTimer \/ timers[pod] > now
  /\ now' = now + ClockStep
  /\ IsoDay(now') <= MaxDay
  /\ UNCHANGED <<store, doctors, resp, reqs, raced, runs, timers>>

-----------------------------------------------------------------------------
(* createAppointment requests in flight.  The handler yields at every await: *)
(* after the controller's checkAvailability (line 82), inside save() after   *)
(* the pre('save') hook's checkAvailability (line 285), and at the insert.   *)

Idle == [pc |-> "idle"]

InFlight(doc, pc) == [pc |-> pc, doc |-> doc, kind |-> "none", cause |-> "none"]

Done(doc, kind, cause) == [pc |-> "done", doc |-> doc, kind |-> kind, cause |-> cause]

SameKey(a, b) == a.doctor = b.doctor /\ a.date = b.date /\ a.time = b.time

\* Lines 11-95: the request arrives and passes or fails the controller's checks.
CreateStart(r, actor, doctorId, date, time, patientId) ==
  LET checks == CreateChecks(actor, doctorId, date, time, patientId)
      doc == NewAppointment(IF actor.role = "Doctor" THEN patientId ELSE actor.id,
                            doctorId, date, time)
  IN /\ reqs[r].pc = "idle"
     /\ reqs' = [reqs EXCEPT ![r] = IF checks = "OK" THEN InFlight(doc, "save")
                                    ELSE Done(doc, checks, checks)]
     /\ UNCHANGED <<store, doctors, now, resp, raced, runs, timers>>

\* CreateHook with a checkAvailability that books the slot it finds free
CreateHook_Reserves(r) ==
  LET doc == reqs[r].doc
      hook == IF Validate(doc) # "OK" THEN "ValidationError"
              ELSE preSave(Len(store) + 1, doc, TRUE)
  IN /\ reqs[r].pc = "save"
     /\ reqs' = [reqs EXCEPT ![r] = IF hook = "OK" THEN InFlight(doc, "insert")
                                    ELSE Done(doc, "InternalError", hook)]
     /\ store' = IF hook = "OK" THEN Append(store, doc) ELSE store
     /\ UNCHANGED <<doctors, now, resp, raced, runs, timers>>

\* Line 105, first half: validation and the pre('save') hook.
CreateHook(r) ==
  LET doc == reqs[r].doc
      hook == IF Validate(doc) # "OK" THEN "ValidationError"
              ELSE preSave(Len(store) + 1, doc, TRUE)
      both == {q \in DOMAIN reqs : q # r /\ reqs[q].pc = "insert" /\ SameKey(reqs[q].doc, doc)}
  IN /\ reqs[r].pc = "save"
     /\ reqs' = [reqs EXCEPT ![r] = IF hook = "OK" THEN InFlight(doc, "insert")
                                    ELSE Done(doc, "InternalError", hook)]
     /\ raced' = IF hook = "OK" THEN raced \cup {{q, r} : q \in both} ELSE raced
     /\ UNCHANGED <<store, doctors, now, resp, runs, timers>>

\* Line 105, second half: the insert, under the unique index.
CreateInsert(r) ==
  LET doc == reqs[r].doc
  IN /\ reqs[r].pc = "insert"
     /\ IF DuplicateKey(NoId, doc.doctor, doc.date, doc.time)
          THEN /\ reqs' = [reqs EXCEPT ![r] = Done(doc, "InternalError", "DuplicateKey")]
               /\ store' = store
          ELSE /\ reqs' = [reqs EXCEPT ![r] = Done(doc, "Created", "none")]
               /\ store' = Append(store, doc)
     /\ UNCHANGED <<doctors, now, resp, raced, runs, timers>>

-----------------------------------------------------------------------------
(* Status requests in flight.  updateAppointment, cancelAppointment and      *)
(* archiveAppointment load the document (findById), decide on the copy they  *)
(* hold, assign to it, and save(): the write sets the paths the handler      *)
(* modified on the stored document, whatever it holds by then.               *)

\* The paths save() writes: those assigned a value other than the loaded one
ModifiedPaths(a, doc) == {f \in DOMAIN a : doc[f] # a[f]}

Loaded(op, id, a, doc) ==
  [pc |-> "write", op |-> op, id |-> id, read |-> a, doc |-> doc,
   paths |-> ModifiedPaths(a, doc), kind |-> "none"]

\* The handler has answered; it holds no document any more
Answered(op, id, kind) == [pc |-> "done", op |-> op, id |-> id, kind |-> kind]

\* A slot takes a request when it holds none or an answered one
Free(r) == reqs[r].pc \in {"idle", "done"}

\* updateAppointment with a status alone, lines 137-217
UpdateRead(r, actor, id, status) ==
  LET a == store[id]
      kind == IF ~IsOwner(actor, a) THEN "Forbidden"
              ELSE IF Unmodifiable(a) THEN "TerminalStatus"
              ELSE IF actor.role # "Doctor" THEN "Forbidden"
              ELSE IF ~StatusAccepted(a, status) THEN "InvalidTransition"
              ELSE "OK"
  IN /\ Free(r)
     /\ reqs' = [reqs EXCEPT ![r] = IF kind = "OK"
                                      THEN Loaded("update", id, a, ApplyStatus(a, status))
                                      ELSE Answered("update", id, kind)]
     /\ UNCHANGED <<store, doctors, now, resp, raced, runs, timers>>

\* cancelAppointment, lines 301-337
CancelRead(r, actor, id) ==
  LET a == store[id]
      kind == IF ~IsOwner(actor, a) THEN "Forbidden"
              ELSE IF a.status \in {"cancelled", "completed"} THEN "TerminalStatus"
              ELSE IF actor.role # "Doctor" /\ TodayOrEarlier(a) THEN "Forbidden"
              ELSE "OK"
  IN /\ Free(r)
     /\ reqs' = [reqs EXCEPT ![r] = IF kind = "OK"
                                      THEN Loaded("cancel", id, a, [a EXCEPT !.status = "cancelled"])
                                      ELSE Answered("cancel", id, kind)]
     /\ UNCHANGED <<store, doctors, now, resp, raced, runs, timers>>

\* archiveAppointment, lines 388-406
ArchiveRead(r, actor, id) ==
  LET a == store[id]
      kind == IF actor.role # "Doctor" \/ a.doctor # actor.id THEN "Forbidden"
              ELSE IF a.status \notin {"completed", "cancelled", "no-show"} THEN "NotTerminal"
              ELSE "OK"
  IN /\ Free(r)
     /\ reqs' = [reqs EXCEPT ![r] = IF kind = "OK"
                                      THEN Loaded("archive", id, a, [a EXCEPT !.isArchived = TRUE])
                                      ELSE Answered("archive", id, kind)]
     /\ UNCHANGED <<store, doctors, now, resp, raced, runs, timers>>

\* The answer of a handler whose save() succeeded
Success(op) ==
  IF op = "update" THEN "Updated" ELSE IF op = "cancel" THEN "Cancelled" ELSE "Archived"

\* HandlerWrite refusing the write when the stored document is no longer the
\* one that was loaded
HandlerWrite_Versioned(r) ==
  LET q == reqs[r]
  IN /\ q.pc = "write"
     /\ IF store[q.id] # q.read
          THEN /\ store' = store
               /\ reqs' = [reqs EXCEPT ![r] = Answered(q.op, q.id, "InternalError")]
          ELSE /\ store' = [store EXCEPT ![q.id] =
                             [f \in DOMAIN @ |-> IF f \in q.paths THEN q.doc[f] ELSE @[f]]]
               /\ reqs' = [reqs EXCEPT ![r] = Answered(q.op, q.id, Success(q.op))]
     /\ UNCHANGED <<doctors, now, resp, raced, runs, timers>>

\* appointment.save() of lines 221, 338, 407: validation of the copy, then the
\* modified paths are set on the stored document
HandlerWrite(r) ==
  LET q == reqs[r]
  IN /\ q.pc = "write"
     /\ IF Validate(q.doc) # "OK"
          THEN /\ store' = store
               /\ reqs' = [reqs EXCEPT ![r] = Answered(q.op, q.id, "ValidationError")]
          ELSE /\ store' = [store EXCEPT ![q.id] =
                             [f \in DOMAIN @ |-> IF f \in q.paths THEN q.doc[f] ELSE @[f]]]
               /\ reqs' = [reqs EXCEPT ![r] = Answered(q.op, q.id, Success(q.op))]
     /\ UNCHANGED <<doctors, now, resp, raced, runs, timers>>

-----------------------------------------------------------------------------
(* The clock *)

Tick ==
  /\ now' = IF now % MinutesPerDay = MorningMinute
              THEN IsoDay(now) * MinutesPerDay + EveningMinute
              ELSE (IsoDay(now) + 1) * MinutesPerDay + MorningMinute
  /\ IsoDay(now') <= MaxDay
  /\ UNCHANGED <<store, doctors, resp, reqs, raced, runs, timers>>

-----------------------------------------------------------------------------

Init ==
  /\ store = << >>
  /\ doctors = Directory
  /\ now = MinutesPerDay + MorningMinute
  /\ resp = NoResp
  /\ reqs = [r \in 1..MaxReqs |-> Idle]
  /\ raced = {}
  /\ runs = << >>
  /\ timers = [p \in 1..MaxPods |-> NoTimer]

\* The requests the clients send.  A patient books doctor D1 on a slot of the
\* grid, on a past date, on a date sent with a time of day, off the grid or
\* outside the clinic's hours, or books a
\* doctor without windows or an unknown one; a doctor books for a patient, or
\* forgets the patient, or books for another doctor.
Day(n) == [day |-> n, tod |-> 0]

CreateRequests ==
  ({Patient1} \X {"D1"} \X {Day(1)} \X {t0800, t0830} \X {NoPatient})
  \cup ({Patient1} \X {"D1"} \X {Day(0), Day(2)} \X {t0800} \X {NoPatient})
  \cup ({Patient1} \X {"D1"} \X {Day(2)} \X TimeInputs \X {NoPatient})
  \cup ({Patient1} \X {"D2", "D9"} \X {Day(2)} \X {t0800} \X {NoPatient})
  \cup ({Doctor1} \X {"D1"} \X {Day(1)} \X {t0830} \X {"P1", NoPatient})
  \cup ({Doctor2} \X {"D1"} \X {Day(1)} \X {t0800} \X {"P1"})
  \cup ({Patient1} \X {"D1"} \X {[day |-> 1, tod |-> NoonMinute]} \X {t0800} \X {NoPatient})

\* An edit of the date, of the time or of both, a status request, or both at once.
UpdateRequests ==
  ({NoDate, Day(2)} \X {NoTime, t0800, t0830} \X {NoStatus})
  \cup ({NoDate} \X {t0815, t1700, t080000} \X {NoStatus})
  \cup ({NoDate} \X {NoTime} \X StatusInputs)
  \cup ({Day(1), Day(2)} \X {t0830} \X {"confirmed", "completed"})

\* The appointment's patient moves it, or asks for a status.
PatientUpdateRequests ==
  {<<Day(2), NoTime, NoStatus>>, <<NoDate, t0830, NoStatus>>,
   <<NoDate, NoTime, "cancelled">>, <<NoDate, NoTime, "confirmed">>}

\* The reasons an edit carries
ReasonInputs == {ReasonPadded, ReasonShort}

\* The appointment's doctor sends every request and its patient a few; a doctor
\* and a patient who have no part in the appointment try one each.
Outsiders == {Doctor2, Patient2}

\* The stored appointments, and an identity that is not stored
Targets == 1..(Len(store) + 1)

Next ==
  \/ \E r \in CreateRequests :
       createAppointment(r[1], r[2], r[3], r[4], r[5]) /\ Len(store') <= MaxAppts
  \/ \E id \in Targets, r \in UpdateRequests :
       updateAppointment(Doctor1, id, r[1], r[2], r[3])
  \/ \E id \in Ids, r \in PatientUpdateRequests :
       updateAppointment(Patient1, id, r[1], r[2], r[3])
  \/ \E actor \in Outsiders, id \in Ids :
       updateAppointment(actor, id, NoDate, NoTime, NoStatus)
  \/ \E id \in Ids, reason \in ReasonInputs :
       updateAppointmentFields(Doctor1, id, NoDate, NoTime, reason, NoStatus)
  \/ \E actor \in {Patient1} \cup Outsiders, id \in Ids :
       updateAppointmentBody(actor, id, Day(2), t0830, ReasonPadded, "confirmed",
                             NotesPadded)
  \/ \E actor \in Actors, id \in Targets : cancelAppointment(actor, id)
  \/ \E actor \in Actors, id \in Targets : archiveAppointment(actor, id)
  \/ updatePastAppointments
  \/ Tick

Spec == Init /\ [][Next]_vars

-----------------------------------------------------------------------------
(* Booking only: several appointments of doctor D1 on one calendar day, the  *)
(* date sent as a day or as a day with a time of day, the hour written with  *)
(* one digit or two.                                                         *)

BookDates == {Day(1), [day |-> 1, tod |-> NoonMinute]}

BookTimes == {t0800, t800, t0830}

NextBook ==
  \/ \E date \in BookDates, time \in BookTimes :
       createAppointment(Patient1, "D1", date, time, NoPatient) /\ Len(store') <= MaxBooked
  \/ \E id \in Ids, date \in BookDates \cup {NoDate}, time \in BookTimes \cup {NoTime} :
       updateAppointment(Doctor1, id, date, time, NoStatus)
  \/ \E id \in Ids : cancelAppointment(Doctor1, id)

SpecBook == Init /\ [][NextBook]_vars

-----------------------------------------------------------------------------
(* Requests in flight together, over a collection that earlier requests,     *)
(* finished before these arrive, have filled: bookings and cancellations.    *)

RaceTimes == {t0800, t0830}

NextRace ==
  \/ \E r \in DOMAIN reqs, time \in RaceTimes :
       CreateStart(r, Patient1, "D1", Day(1), time, NoPatient)
  \/ \E r \in DOMAIN reqs : CreateHook(r)
  \/ \E r \in DOMAIN reqs : CreateInsert(r)
  \/ /\ \A r \in DOMAIN reqs : reqs[r].pc = "idle"
     /\ \E time \in RaceTimes : createAppointment(Patient1, "D1", Day(1), time, NoPatient)
  \/ \E id \in Ids : cancelAppointment(Doctor1, id)

SpecRace == Init /\ [][NextRace]_vars

-----------------------------------------------------------------------------
(* Availability windows: doctor D1 has declared one of several availabilities *)
(* that the Doctor model accepts (one window a day, start before end, within  *)
(* 8:00 - 17:00, hours written with one digit or two); patients book and the  *)
(* doctor moves appointments at the start, inside and at the end of a window. *)

MaxWindowAppts == 2

Availabilities ==
  { << >>,
    << [day |-> "tuesday", startTime |-> t0800, endTime |-> t1200] >>,
    << [day |-> "wednesday", startTime |-> t830, endTime |-> t1200] >>,
    << [day |-> "tuesday", startTime |-> t0830, endTime |-> t1130],
       [day |-> "wednesday", startTime |-> t0800, endTime |-> t1200] >> }

InitWindow ==
  /\ store = << >>
  /\ \E av \in Availabilities : doctors = [d \in {"D1", "D2"} |-> IF d = "D1" THEN av ELSE << >>]
  /\ now = MinutesPerDay + MorningMinute
  /\ resp = NoResp
  /\ reqs = [r \in 1..MaxReqs |-> Idle]
  /\ raced = {}
  /\ runs = << >>
  /\ timers = [p \in 1..MaxPods |-> NoTimer]

WindowDates == {Day(1), Day(2)}

WindowTimes == {t0800, t0830, t1130, t1200}

NextWindow ==
  \/ \E date \in WindowDates, time \in WindowTimes :
       createAppointment(Patient1, "D1", date, time, NoPatient) /\ Len(store') <= MaxWindowAppts
  \/ \E id \in Ids, date \in WindowDates \cup {NoDate}, time \in WindowTimes \cup {NoTime} :
       updateAppointment(Doctor1, id, date, time, NoStatus)

SpecWindow == InitWindow /\ [][NextWindow]_vars

-----------------------------------------------------------------------------
(* The sweep among the requests: two appointments of day 1 are booked,        *)
(* confirmed or cancelled while the replicas start, their timers fire and     *)
(* their runs proceed.                                                        *)

SweepTimes == {t0800, t0830}

NextSweep ==
  \/ \E time \in SweepTimes :
       createAppointment(Patient1, "D1", Day(1), time, NoPatient) /\ Len(store') <= MaxSweepAppts
  \/ \E id \in Ids : updateAppointment(Doctor1, id, NoDate, NoTime, "confirmed")
  \/ \E id \in Ids : cancelAppointment(Doctor1, id)
  \/ \E pod \in DOMAIN timers : initAppointmentStatusScheduler(pod)
  \/ \E pod \in DOMAIN timers : TimerFires(pod)
  \/ \E r \in DOMAIN runs : SweepFind(r)
  \/ \E r \in DOMAIN runs : SweepSave(r)
  \/ \E r \in DOMAIN runs : SweepSaveFails(r)
  \/ \E r \in DOMAIN runs : SweepReturn(r)
  \/ Tock

SpecSweep == Init /\ [][NextSweep]_vars

-----------------------------------------------------------------------------
(* One appointment of day 1 among status requests in flight and the sweep of *)
(* one replica: every handler and every run may stop between its read and    *)
(* its write while the others proceed.                                       *)

FlightStatuses == {"confirmed", "completed"}

NextFlight ==
  \/ createAppointment(Patient1, "D1", Day(1), t0800, NoPatient) /\ Len(store') <= MaxAppts
  \/ \E r \in DOMAIN reqs, id \in Ids, status \in FlightStatuses :
       UpdateRead(r, Doctor1, id, status)
  \/ \E r \in DOMAIN reqs, id \in Ids : CancelRead(r, Doctor1, id)
  \/ \E r \in DOMAIN reqs, id \in Ids : ArchiveRead(r, Doctor1, id)
  \/ \E r \in DOMAIN reqs : HandlerWrite(r)
  \/ initAppointmentStatusScheduler(1)
  \/ TimerFires(1)
  \/ \E r \in DOMAIN runs : SweepFind(r)
  \/ \E r \in DOMAIN runs : SweepSave(r)
  \/ \E r \in DOMAIN runs : SweepReturn(r)
  \/ Tock

SpecFlight == Init /\ [][NextFlight]_vars

-----------------------------------------------------------------------------
(* The sweep of one replica under fairness: the clock advances, a due timer  *)
(* fires, the query and every save of a run are answered.  An appointment of *)
(* day 1 is booked, confirmed, perhaps cancelled by its doctor.              *)

NextLive ==
  \/ createAppointment(Patient1, "D1", Day(1), t0800, NoPatient) /\ Len(store') <= MaxAppts
  \/ \E id \in Ids : updateAppointment(Doctor1, id, NoDate, NoTime, "confirmed")
  \/ \E id \in Ids : cancelAppointment(Doctor1, id)
  \/ initAppointmentStatusScheduler(1)
  \/ TimerFires(1)
  \/ \E r \in DOMAIN runs : SweepFind(r)
  \/ \E r \in DOMAIN runs : SweepSave(r)
  \/ \E r \in DOMAIN runs : SweepReturn(r)
  \/ Tock

SpecLive ==
  /\ Init
  /\ [][NextLive]_vars
  /\ WF_vars(TimerFires(1))
  /\ WF_vars(\E r \in DOMAIN runs : SweepFind(r))
  /\ WF_vars(\E r \in DOMAIN runs : SweepSave(r))
  /\ WF_vars(\E r \in DOMAIN runs : SweepReturn(r))
  /\ WF_vars(Tock)

-----------------------------------------------------------------------------
(* Doctors declare their availability: none, one or two windows, on the same  *)
(* day or not, starting before, at or after the end, inside the clinic's      *)
(* hours or not, on a day that exists or not.                                 *)

WindowInputs ==
  [day : {"monday", "tuesday"}, startTime : {t0730, t0800, t1200},
   endTime : {t0800, t1200, t1700, t1730}]
  \cup {[day |-> "someday", startTime |-> t0800, endTime |-> t1200],
        [day |-> "monday", startTime |-> t0800, endTime |-> t2400]}

AvailabilityInputs ==
  {<< >>} \cup {<<w>> : w \in WindowInputs}
          \cup {<<w[1], w[2]>> : w \in WindowInputs \X WindowInputs}

NextAvail ==
  \E actor \in {Doctor1, Doctor2}, availability \in AvailabilityInputs :
    updateAvailability(actor, "D1", availability)

SpecAvail == Init /\ [][NextAvail]_vars

-----------------------------------------------------------------------------
(* Claims *)

SameDoctorAndDay(a, b) == a.doctor = b.doctor /\ IsoDay(a.date) = IsoDay(b.date)

\* C1: no two distinct non-cancelled appointments of the same doctor on the
\* same calendar date have the same time.
C1_NoDoubleBooking ==
  \A i, j \in Ids :
    (i # j /\ NonCancelled(store[i]) /\ NonCancelled(store[j])
       /\ SameDoctorAndDay(store[i], store[j]))
      => store[i].time # store[j].time

\* C2: any two distinct non-cancelled appointments of the same doctor on the
\* same calendar date have clock times at least 30 minutes apart.
C2_BufferInvariant ==
  \A i, j \in Ids :
    (i # j /\ NonCancelled(store[i]) /\ NonCancelled(store[j])
       /\ SameDoctorAndDay(store[i], store[j]))
      => \/ ClockMinutes(store[i].time) - ClockMinutes(store[j].time) >= 30
         \/ ClockMinutes(store[j].time) - ClockMinutes(store[i].time) >= 30

\* C3: when two createAppointment requests for the same doctor, date and time
\* have both run checkAvailability before either inserts, exactly one insert is
\* persisted and the other is refused by the unique index.
C3_ExactlyOneInsert ==
  \A p, q \in DOMAIN reqs :
    ({p, q} \in raced /\ p # q /\ reqs[p].pc = "done" /\ reqs[q].pc = "done")
      => \/ reqs[p].kind = "Created" /\ reqs[q].cause = "DuplicateKey"
         \/ reqs[q].kind = "Created" /\ reqs[p].cause = "DuplicateKey"

\* C4: an insert refused by the unique index is reported as SlotTaken.
C4_DuplicateKeyIsSlotTaken ==
  (resp.op = "create" /\ resp.cause = "DuplicateKey") => resp.kind = "SlotTaken"

\* C5: a cancelled appointment does not occupy its slot: a booking of the slot
\* of a cancelled appointment that passes every check of checkAvailability is
\* created, pending.
C5_CancelledFreesSlot ==
  [][\A r \in CreateRequests :
       (/\ createAppointment(r[1], r[2], r[3], r[4], r[5])
        /\ CreateChecks(r[1], r[2], r[3], r[4], r[5]) = "OK"
        /\ \E j \in Ids : /\ store[j].status = "cancelled"
                          /\ store[j].doctor = r[2]
                          /\ store[j].date = CastDate(r[3])
                          /\ store[j].time = r[4])
         => /\ resp'.kind = "Created"
            /\ Len(store') = Len(store) + 1
            /\ store'[Len(store')].status = "pending"]_vars

HourOf(time) == ParseInt(SplitPart(time, 0))

MinuteOf(time) == ParseInt(SplitPart(time, 1))

OnGrid(time) == MinuteOf(time) \in {0, 30} /\ HourOf(time) \in 8..16

\* The refusals that come before the grid checks: authorization, a missing
\* field, the format, the state of the appointment, the doctor, the date.
EarlierRefusals ==
  {"NotFound", "Forbidden", "MissingFields", "MalformedTime", "TerminalStatus",
   "DoctorNotFound", "PastDate"}

\* The answer to a request for this time, when the time is off the grid
GridVerdict(time, kind) ==
  /\ HourOf(time) \notin 8..16 => kind \in EarlierRefusals \cup {"OutsideClinicHours"}
  /\ (HourOf(time) \in 8..16 /\ MinuteOf(time) \notin {0, 30})
       => kind \in EarlierRefusals \cup {"InvalidGranularity"}

\* C6: every stored appointment has minute 0 or 30 and hour in 8..16; a create
\* or an edit asking for an hour outside 8..16 is refused as OutsideClinicHours
\* and one asking for another minute as InvalidGranularity (unless an earlier
\* check already refused it), and nothing is stored.
C6_GridInvariant ==
  /\ [](\A i \in Ids : OnGrid(store[i].time))
  /\ [][\A r \in CreateRequests :
          (~OnGrid(r[4]) /\ createAppointment(r[1], r[2], r[3], r[4], r[5]))
            => GridVerdict(r[4], resp'.kind) /\ store' = store]_vars
  /\ [][\A id \in Ids, r \in UpdateRequests :
          (r[2] # NoTime /\ ~OnGrid(r[2]) /\ updateAppointment(Doctor1, id, r[1], r[2], r[3]))
            => GridVerdict(r[2], resp'.kind) /\ store' = store]_vars

C6_Witness ==
  /\ resp.kind \in {"InvalidGranularity", "OutsideClinicHours"}
  /\ \E i \in Ids : OnGrid(store[i].time)

\* The appointment's date and time lie strictly before the clock
BeforeClock(a) == IsoDay(a.date) * MinutesPerDay + HourOf(a.time) * 60 + MinuteOf(a.time) < now

\* The pairs of current and requested status the lifecycle allows
Allowed(a, status) ==
  \/ a.status = "pending" /\ status \in {"confirmed", "cancelled"}
  \/ a.status = "confirmed" /\ status = "cancelled"
  \/ a.status = "confirmed" /\ status \in {"completed", "no-show"} /\ BeforeClock(a)

\* C7 as stated: a status request of the owning doctor is accepted exactly when
\* the pair is allowed, and every other pair is refused with InvalidTransition,
\* the stored status unchanged.
C7_StatusRequests_AsStated ==
  [][\A id \in Ids, status \in StatusInputs :
       updateAppointment(Doctor1, id, NoDate, NoTime, status)
         => IF Allowed(store[id], status)
              THEN resp'.kind = "Updated" /\ store'[id].status = status
              ELSE resp'.kind = "InvalidTransition" /\ store'[id].status = store[id].status]_vars

\* C7 amended: accepted exactly when the pair is allowed; every other pair is
\* refused, the stored appointment unchanged: with InvalidTransition when the
\* current status is pending, confirmed or no-show, and with the refusal of
\* every edit of a cancelled or completed appointment when it is one of those.
C7_StatusRequests ==
  [][\A id \in Ids, status \in StatusInputs :
       updateAppointment(Doctor1, id, NoDate, NoTime, status)
         => IF Allowed(store[id], status)
              THEN resp'.kind = "Updated" /\ store'[id].status = status
              ELSE /\ store' = store
                   /\ resp'.kind = IF store[id].status \in {"cancelled", "completed"}
                                     THEN "TerminalStatus"
                                     ELSE "InvalidTransition"]_vars

C7_Witness ==
  /\ resp.op = "update" /\ resp.kind = "InvalidTransition"
  /\ \E i \in Ids : store[i].status = "confirmed" /\ ~store[i].isArchived

\* C8: cancelled, completed and no-show are absorbing: no step changes a
\* stored status that is one of them.
C8_TerminalAbsorbing ==
  [][\A i \in Ids :
       store[i].status \in {"cancelled", "completed", "no-show"}
         => store'[i].status = store[i].status]_vars

\* C9: a status request moves an appointment to completed or no-show only from
\* confirmed and only when its date and time are before the clock; made
\* earlier, the request is refused and the appointment stays confirmed.
C9_CompletedOnlyAfter ==
  /\ [][\A i \in Ids :
          (/\ resp'.op = "update"
           /\ store'[i].status \in {"completed", "no-show"}
           /\ store'[i].status # store[i].status)
            => store[i].status = "confirmed" /\ BeforeClock(store'[i])]_vars
  /\ [][\A id \in Ids, status \in {"completed", "no-show"} :
          (/\ updateAppointment(Doctor1, id, NoDate, NoTime, status)
           /\ store[id].status = "confirmed"
           /\ ~BeforeClock(store[id]))
            => resp'.kind = "InvalidTransition" /\ store' = store]_vars

C9_Witness == \E i \in Ids : store[i].status = "no-show"

\* C10: a step that moves an appointment from confirmed to completed,
\* cancelled or no-show after its date and time have passed leaves it archived.
C10_ArchivedOnLateTransition ==
  [][\A i \in Ids :
       (/\ store[i].status = "confirmed"
        /\ store'[i].status \in {"completed", "cancelled", "no-show"}
        /\ BeforeClock(store[i]))
         => store'[i].isArchived]_vars

\* C11: a cancel request of the appointment's patient is refused, and the
\* appointment left as it was, when the appointment's day is the clock's day
\* or an earlier one; a cancel request of the owning doctor on a pending or
\* confirmed appointment succeeds whatever the date.
C11_CancelAsymmetry ==
  /\ [][\A id \in Ids :
          (/\ store[id].patient = Patient1.id
           /\ IsoDay(store[id].date) <= IsoDay(now)
           /\ cancelAppointment(Patient1, id))
            => resp'.kind # "Cancelled" /\ store' = store]_vars
  /\ [][\A id \in Ids :
          (/\ store[id].doctor = Doctor1.id
           /\ store[id].status \in {"pending", "confirmed"}
           /\ cancelAppointment(Doctor1, id))
            => /\ resp'.kind = "Cancelled"
               /\ store' = [store EXCEPT ![id].status = "cancelled"]]_vars

\* The patient has just been refused the cancellation of an open appointment of
\* today or earlier.
C11_Witness ==
  /\ resp.op = "cancel" /\ resp.cause = "TodayOrEarlier"
  /\ \E i \in Ids : /\ store[i].patient = Patient1.id
                    /\ store[i].status \in {"pending", "confirmed"}
                    /\ IsoDay(store[i].date) <= IsoDay(now)

\* C12: an edit never conflicts with the edited appointment: an edit that asks
\* for the appointment's own date and time is never answered SlotTaken or
\* InsufficientBuffer, and an edit answered one of these has another
\* non-cancelled appointment of the doctor, on the requested date, at the
\* requested time or before the string-ordered neighbour lookups allow.
C12_EditExcludesSelf ==
  /\ [][\A id \in Ids, date \in BookDates \cup {NoDate}, time \in BookTimes \cup {NoTime} :
          (/\ resp'.op = "update"
           /\ date # NoDate => CastDate(date) = store[id].date
           /\ time # NoTime => time = store[id].time
           /\ updateAppointment(Doctor1, id, date, time, NoStatus))
            => resp'.cause \notin {"SlotTaken", "InsufficientBuffer"}]_vars
  /\ [][\A id \in Ids, date \in BookDates \cup {NoDate}, time \in BookTimes \cup {NoTime} :
          (/\ resp'.op = "update"
           /\ resp'.cause \in {"SlotTaken", "InsufficientBuffer"}
           /\ updateAppointment(Doctor1, id, date, time, NoStatus))
            => \E j \in Ids :
                 /\ j # id
                 /\ NonCancelled(store[j])
                 /\ store[j].doctor = store[id].doctor
                 /\ store[j].date = (IF date # NoDate THEN CastDate(date) ELSE store[id].date)
                 /\ \/ store[j].time = (IF time # NoTime THEN time ELSE store[id].time)
                    \/ resp'.cause = "InsufficientBuffer"]_vars

\* An edit that ran checkAvailability was accepted, and the only appointment
\* stored is the edited one, on a date with a time of day, its hour written
\* with one digit.
C12_Witness ==
  /\ resp.op = "update" /\ resp.kind = "Updated" /\ resp.cause = "Checked"
  /\ Len(store) = 1
  /\ store[1].date % MinutesPerDay # 0
  /\ store[1].time = t800

\* The minutes since midnight of a time string
MinuteOfDay(time) == HourOf(time) * 60 + MinuteOf(time)

\* The doctor has a window on the weekday of this instant around this time
HasWindow(doctorId, instant, time) ==
  \E i \in 1..Len(doctors[doctorId]) :
    LET w == doctors[doctorId][i]
    IN /\ w.day = DayNames[((instant \div 1440) % 7) + 1]
       /\ MinuteOfDay(w.startTime) <= MinuteOfDay(time)
       /\ MinuteOfDay(time) < MinuteOfDay(w.endTime)

\* C13: a booking or an edit that reaches the availability step (known doctor,
\* date not past, time on the grid) is answered NoAvailability exactly when
\* the doctor has no window on the weekday of the requested date with
\* start <= time < end in minutes since midnight; and then nothing is stored.
C13_AvailabilityWindow ==
  /\ [][\A date \in WindowDates, time \in WindowTimes :
          (/\ resp'.op = "create"
           /\ IsoDay(CastDate(date)) >= IsoDay(now)
           /\ OnGrid(time)
           /\ createAppointment(Patient1, "D1", date, time, NoPatient))
            => /\ resp'.cause = "NoAvailability" <=> ~HasWindow("D1", CastDate(date), time)
               /\ resp'.cause = "NoAvailability"
                    => resp'.kind = "NoAvailability" /\ store' = store]_vars
  /\ [][\A id \in Ids, date \in WindowDates \cup {NoDate}, time \in WindowTimes \cup {NoTime} :
          LET newDate == IF date # NoDate THEN CastDate(date) ELSE store[id].date
              newTime == IF time # NoTime THEN time ELSE store[id].time
          IN (/\ resp'.op = "update"
              /\ newDate # store[id].date \/ newTime # store[id].time
              /\ IsoDay(newDate) >= IsoDay(now)
              /\ OnGrid(newTime)
              /\ updateAppointment(Doctor1, id, date, time, NoStatus))
               => /\ resp'.cause = "NoAvailability" <=> ~HasWindow("D1", newDate, newTime)
                  /\ resp'.cause = "NoAvailability"
                       => resp'.kind = "NoAvailability" /\ store' = store]_vars

\* A request at the end of a window has just been refused while an appointment
\* inside a window whose start is written with one digit is stored.
C13_Witness ==
  /\ resp.kind = "NoAvailability"
  /\ \E i \in Ids, w \in 1..Len(doctors["D1"]) :
       /\ doctors["D1"][w].startTime = t830
       /\ doctors["D1"][w].day = DayNames[(IsoDay(store[i].date) % 7) + 1]
       /\ store[i].time \in {t0830, t1130}

\* The refusals that come before checkAvailability looks at the date
BeforeDateRefusals ==
  {"NotFound", "Forbidden", "MissingFields", "MalformedTime", "TerminalStatus",
   "DoctorNotFound"}

\* The dates checkAvailability is asked about: days, and days with a time of day
CheckDates == [day : 0..MaxDay, tod : {0, NoonMinute}]

\* C14: checkAvailability, asked about a known doctor, answers PastDate
\* exactly when the calendar day of the requested date is before the clock's
\* day, whatever the time of day of the clock, of the date or of the
\* appointment; so a booking that reaches it is refused for PastDate exactly
\* then, a request dated today never is, and a refusal for PastDate stores
\* nothing.
C14_PastDate ==
  /\ [](\A d \in DOMAIN doctors, date \in CheckDates, time \in TimeInputs :
          checkAvailability(d, CastDate(date), time, NoId) = "PastDate"
            <=> date.day < now \div 1440)
  /\ [][\A r \in CreateRequests :
          (/\ resp'.op = "create"
           /\ createAppointment(r[1], r[2], r[3], r[4], r[5])
           /\ resp'.kind \notin BeforeDateRefusals)
            => resp'.cause = "PastDate" <=> r[3].day < now \div 1440]_vars
  /\ [][resp'.cause = "PastDate" => store' = store]_vars

\* In the evening, after a PastDate refusal, an appointment of today whose time
\* has gone by is stored, its date sent with a time of day: it was booked today.
C14_Witness ==
  /\ resp.kind = "PastDate"
  /\ now % MinutesPerDay = EveningMinute
  /\ \E i \in Ids : /\ IsoDay(store[i].date) = IsoDay(now)
                    /\ store[i].date % MinutesPerDay # 0

\* The non-cancelled appointments of the doctor on the calendar day of this
\* instant, other than appointment id
OthersThatDay(doctorId, instant, id) ==
  {j \in Ids : /\ j # id
               /\ NonCancelled(store[j])
               /\ store[j].doctor = doctorId
               /\ store[j].date \div 1440 = instant \div 1440}

\* The answer to a request for this place that passed the earlier checks
ConflictVerdict(doctorId, instant, time, id, cause) ==
  LET others == OthersThatDay(doctorId, instant, id)
      exact == \E j \in others : store[j].time = time
      near == \E j \in others :
                /\ MinuteOfDay(store[j].time) - MinuteOfDay(time) < 30
                /\ MinuteOfDay(time) - MinuteOfDay(store[j].time) < 30
  IN /\ exact => cause = "SlotTaken"
     /\ (~exact /\ near) => cause = "InsufficientBuffer"

\* The refusals that come before the conflict checks
PriorRefusals ==
  EarlierRefusals \cup {"OutsideClinicHours", "InvalidGranularity", "NoAvailability"}

\* C15: for a booking or an edit that passes the grid, past-date and
\* availability checks: when another non-cancelled appointment of the doctor on
\* that date is at exactly the requested time the answer is SlotTaken; when
\* none is but one lies less than 30 minutes before or after, the answer is
\* InsufficientBuffer.
C15_ConflictKinds ==
  /\ [][\A date \in BookDates, time \in BookTimes :
          (/\ resp'.op = "create"
           /\ resp'.cause \notin PriorRefusals
           /\ createAppointment(Patient1, "D1", date, time, NoPatient))
            => ConflictVerdict("D1", CastDate(date), time, NoId, resp'.cause)]_vars
  /\ [][\A id \in Ids, date \in BookDates \cup {NoDate}, time \in BookTimes \cup {NoTime} :
          LET newDate == IF date # NoDate THEN CastDate(date) ELSE store[id].date
              newTime == IF time # NoTime THEN time ELSE store[id].time
          IN (/\ resp'.op = "update"
              /\ resp'.cause \notin PriorRefusals
              /\ newDate # store[id].date \/ newTime # store[id].time
              /\ updateAppointment(Doctor1, id, date, time, NoStatus))
               => ConflictVerdict("D1", newDate, newTime, id, resp'.cause)]_vars

\* C16: an updateAppointment request on a cancelled or completed appointment
\* is refused, whatever fields it carries and whoever sends it, and the stored
\* appointment is left as it was; its owner is told that such an appointment
\* cannot be modified.
C16_TerminalEditRefused ==
  /\ [][\A id \in Ids, r \in UpdateRequests :
          (/\ resp'.op = "update"
           /\ store[id].status \in {"cancelled", "completed"}
           /\ updateAppointment(Doctor1, id, r[1], r[2], r[3]))
            => resp'.kind = "TerminalStatus" /\ store' = store]_vars
  /\ [][\A id \in Ids, r \in PatientUpdateRequests :
          (/\ resp'.op = "update"
           /\ store[id].status \in {"cancelled", "completed"}
           /\ updateAppointment(Patient1, id, r[1], r[2], r[3]))
            => resp'.kind = "TerminalStatus" /\ store' = store]_vars
  /\ [][\A id \in Ids, actor \in Outsiders :
          (/\ resp'.op = "update"
           /\ store[id].status \in {"cancelled", "completed"}
           /\ updateAppointment(actor, id, NoDate, NoTime, NoStatus))
            => resp'.kind = "Forbidden" /\ store' = store]_vars

\* An edit of a completed appointment has just been refused.
C16_Witness ==
  /\ resp.op = "update" /\ resp.kind = "TerminalStatus"
  /\ \E i \in Ids : store[i].status = "completed"

\* C17: once an appointment is cancelled, completed or no-show, its date, time
\* and reason never change again.
C17_TerminalFieldsFrozen ==
  [][\A i \in Ids :
       store[i].status \in {"cancelled", "completed", "no-show"}
         => /\ store'[i].date = store[i].date
            /\ store'[i].time = store[i].time
            /\ store'[i].reason = store[i].reason]_vars

\* C19: a sweep run that follows a complete sweep run, with no other operation
\* and no change of the clock's day in between, returns 0 and leaves the store
\* as the first run left it.
C19_SweepIdempotent ==
  [][(/\ resp.op = "sweep"
      /\ resp.day = now \div 1440
      /\ updatePastAppointments)
       => resp'.n = 0 /\ store' = store]_vars

C20_NoOverlappingRuns ==
  [][Len(runs') > Len(runs)
       => \A r \in DOMAIN runs : ~(runs[r].pc = "save" /\ runs[r].todo # << >>)]_vars

\* C21: a write that fails during a sweep run is skipped: when the run ends,
\* every record it selected other than the one whose write failed is
\* completed and archived.
C21_FailedWriteSkipped ==
  [][\A r \in DOMAIN runs :
       (runs[r].pc = "save" /\ runs'[r].pc = "done")
         => \A j \in runs[r].selected :
              (runs'[r].failed => j # Head(runs[r].todo))
                => store'[j].status = "completed" /\ store'[j].isArchived]_vars

\* C22: the value a sweep run returns is the number of records the run wrote
\* as completed and archived, also when a write fails part-way.
C22_CountIsRecordsChanged ==
  [][\A r \in DOMAIN runs :
       (runs[r].pc = "save" /\ runs'[r].pc = "done")
         => resp'.n = Cardinality(runs[r].selected) - Len(runs[r].todo)]_vars

\* C23: appointments are never removed: every step keeps every stored
\* identity, with its patient and doctor; cancellation and archival change
\* only the status and the flag.
C23_NeverRemoved ==
  /\ [][/\ Len(store') >= Len(store)
        /\ \A i \in Ids : /\ store'[i].patient = store[i].patient
                          /\ store'[i].doctor = store[i].doctor]_vars
  /\ [][\A i \in Ids :
          resp'.op = "cancel"
            => store'[i] = store[i] \/ store'[i] = [store[i] EXCEPT !.status = "cancelled"]]_vars
  /\ [][\A i \in Ids :
          resp'.op = "archive"
            => store'[i] = store[i] \/ store'[i] = [store[i] EXCEPT !.isArchived = TRUE]]_vars

\* A cancelled appointment has just been archived and is still stored.
C23_Witness ==
  /\ resp.op = "archive" /\ resp.kind = "Archived"
  /\ \E i \in Ids : store[i].status = "cancelled" /\ store[i].isArchived

\* C24: every availability that passes the doctor model's validation has no
\* two windows on one day, each window's start strictly before its end, and
\* both start and end within 08:00 to 17:00 inclusive.
C24_ValidAvailability ==
  \A d \in DOMAIN doctors :
    /\ \A i, j \in 1..Len(doctors[d]) : i # j => doctors[d][i].day # doctors[d][j].day
    /\ \A i \in 1..Len(doctors[d]) :
         LET w == doctors[d][i]
         IN /\ MinuteOfDay(w.startTime) < MinuteOfDay(w.endTime)
            /\ 8 * 60 <= MinuteOfDay(w.startTime)
            /\ MinuteOfDay(w.endTime) <= 17 * 60

\* C25: checkAvailability only reads: the step of a booking in which the
\* controller calls it, and the step in which the pre-save hook calls it,
\* leave the appointments and the doctors as they were, whether it returns
\* true or throws.
C25_CheckAvailabilityReadOnly ==
  [][\A r \in DOMAIN reqs :
       (reqs'[r] # reqs[r] /\ reqs[r].pc \in {"idle", "save"})
         => store' = store /\ doctors' = doctors]_vars

\* One booking has been refused by checkAvailability and another has passed
\* it in the hook, while an appointment is stored.
C25_Witness ==
  /\ Len(store) > 0
  /\ \E r, q \in DOMAIN reqs :
       /\ reqs[r].pc = "done" /\ reqs[r].cause = "SlotTaken"
       /\ reqs[q].pc = "insert"

\* The errors of the slot grid
GridRefusals == {"PastDate", "OutsideClinicHours", "InvalidGranularity"}

\* C26: checkAvailability, asked about a date in the past or a time outside
\* the clinic's hours or off the 30-minute grid, answers with that error of
\* the slot grid, whether the doctor is known and has a window that day or
\* not.
C26_GridBeforeLookup ==
  \A doctorId \in DoctorIds, date \in CheckDates, time \in TimeInputs :
    (PastDateCheck(CastDate(date)) # "OK" \/ GridCheck(time) # "OK")
      => checkAvailability(doctorId, CastDate(date), time, NoId) \in GridRefusals

\* The candidates whose clock time is before, and after, this time
ClockEarlier(cand, time) ==
  {j \in cand : ClockMinutes(store[j].time) < ClockMinutes(time)}

ClockLater(cand, time) ==
  {j \in cand : ClockMinutes(store[j].time) > ClockMinutes(time)}

\* C27: among the non-cancelled appointments of the doctor on the date, the
\* one checkAvailability takes as the neighbour before the requested time is
\* the latest by the clock of those earlier than it, and the neighbour after
\* is the earliest by the clock of those later than it, also when hours are
\* written with one digit.
C27_NeighboursByClock ==
  \A d \in BookDates, time \in BookTimes :
    LET cand == Candidates("D1", CastDate(d), NoId)
        earlier == ClockEarlier(cand, time)
        later == ClockLater(cand, time)
    IN /\ PreviousAppointment("D1", CastDate(d), time, NoId)
            = {j \in earlier : \A k \in earlier :
                 ClockMinutes(store[k].time) <= ClockMinutes(store[j].time)}
       /\ NextAppointment("D1", CastDate(d), time, NoId)
            = {j \in later : \A k \in later :
                 ClockMinutes(store[j].time) <= ClockMinutes(store[k].time)}

\* The errors checkAvailability throws
AvailabilityRefusals ==
  GridRefusals \cup {"DoctorNotFound", "NoAvailability", "SlotTaken", "InsufficientBuffer"}

\* C28: a stored appointment gets another date or time only by an update of a
\* pending or confirmed appointment for which checkAvailability, asked about
\* the new date and time with the appointment itself excluded, succeeds; an
\* update refused for availability leaves every stored appointment as it was.
C28_EditOnlyIfAvailable ==
  /\ [][\A id \in Ids :
          (/\ id \in DOMAIN store'
           /\ store'[id].date # store[id].date \/ store'[id].time # store[id].time)
            => /\ resp'.op = "update"
               /\ store[id].status \in {"pending", "confirmed"}
               /\ checkAvailability(store[id].doctor, store'[id].date,
                                     store'[id].time, id) = "OK"]_vars
  /\ [][(resp'.op = "update" /\ resp'.cause \in AvailabilityRefusals)
          => store' = store]_vars

\* An edit has just been refused because another appointment is too close,
\* while an earlier edit moved an appointment to 08:30.
C28_Witness ==
  /\ resp.op = "update"
  /\ resp.cause = "InsufficientBuffer"
  /\ Len(store) >= 2
  /\ \E i \in Ids : store[i].time = t0830 /\ store[i].date = CastDate(Day(1))

\* The bodies of update requests: any of a date, a time, a reason, a status
\* and notes
UpdateBodies ==
  {NoDate, Day(2)} \X {NoTime, t0830} \X {NoReason, ReasonPadded}
    \X {NoStatus, "confirmed", "cancelled", "completed"} \X {NoNotes, NotesPadded}

\* C29: an update sent by anyone but the appointment's doctor, if it carries
\* a status or if its sender is not the appointment's patient either, is
\* refused and stores nothing of what it carries; so a status changed by an
\* update was changed by the appointment's doctor.  Stated as: a step that
\* answers an update with success, or that changes the store, is the
\* handler's step for no such request.
C29_StatusByOwningDoctorOnly ==
  [][(resp'.op = "update" /\ (resp'.kind = "Updated" \/ store' # store))
       => \A actor \in Actors, id \in Ids, b \in UpdateBodies :
            (/\ ~(actor.role = "Doctor" /\ store[id].doctor = actor.id)
             /\ b[4] # NoStatus \/ ~(actor.role = "User" /\ store[id].patient = actor.id))
              => ~updateAppointmentBody(actor, id, b[1], b[2], b[3], b[4], b[5])]_vars

\* An update has been refused as forbidden and the appointment, still pending
\* on its first date with its first reason and no notes, is of patient P1.
C29_Witness ==
  /\ resp.op = "update"
  /\ resp.kind = "Forbidden"
  /\ \E i \in Ids : /\ store[i].status = "pending"
                    /\ store[i].patient = "P1"
                    /\ store[i].date = CastDate(Day(1))
                    /\ store[i].reason = ReasonA
                    /\ store[i].notes = NoNotes

-----------------------------------------------------------------------------
(* Notes: one appointment that is booked, confirmed, closed by its doctor or *)
(* cancelled, and annotated by its doctor or its patient at any moment.      *)

NotesStatuses == {"confirmed", "cancelled", "completed", "no-show"}

NextNotes ==
  \/ createAppointment(Patient1, "D1", Day(1), t0800, NoPatient) /\ Len(store') <= MaxAppts
  \/ \E id \in Ids, status \in NotesStatuses :
       updateAppointment(Doctor1, id, NoDate, NoTime, status)
  \/ \E actor \in {Doctor1, Patient1}, id \in Ids :
       updateAppointmentBody(actor, id, NoDate, NoTime, NoReason, NoStatus, NotesPadded)
  \/ \E id \in Ids : cancelAppointment(Patient1, id)
  \/ Tick

SpecNotes == Init /\ [][NextNotes]_vars

\* C30: an update that carries only notes, sent by the doctor or the patient
\* of an appointment that is cancelled, completed or no-show, is accepted and
\* the appointment then holds the notes, trimmed.
C30_NotesInTerminalStates ==
  [][\A actor \in {Doctor1, Patient1}, id \in Ids :
       (/\ resp'.op = "update"
        /\ store[id].status \in {"cancelled", "completed", "no-show"}
        /\ IsOwner(actor, store[id])
        /\ updateAppointmentBody(actor, id, NoDate, NoTime, NoReason, NoStatus,
                                  NotesPadded))
         => resp'.kind = "Updated" /\ store'[id].notes = NotesA]_vars

\* C31: a sweep run changes only the appointments that are confirmed, not
\* archived and dated on a calendar day before yesterday's; every other
\* appointment, a confirmed one dated yesterday, today or later among them,
\* is after the run as it was before.
C31_SweepFrame ==
  [][(resp'.op = "sweep" /\ updatePastAppointments)
       => \A i \in Ids :
            ~(/\ store[i].status = "confirmed"
              /\ ~store[i].isArchived
              /\ IsoDay(store[i].date) < IsoDay(now) - 1)
              => store'[i] = store[i]]_vars

\* C32: among a sweep run and status or cancel requests that hold copies of
\* the same appointment, every write is applied: a handler that saves a status
\* answers with success and the stored status is then the one it wrote, a
\* save of the sweep leaves the stored status completed, and the stored
\* status changes in no other step.
C32_LastWriteWins ==
  /\ [][\A r \in DOMAIN reqs :
          (reqs[r].pc = "write" /\ reqs'[r] # reqs[r] /\ "status" \in reqs[r].paths)
            => /\ reqs'[r].kind = Success(reqs[r].op)
               /\ store'[reqs[r].id].status = reqs[r].doc.status]_vars
  /\ [][\A r \in DOMAIN runs :
          (runs[r].pc = "save" /\ runs'[r].pc = "save" /\ runs'[r].todo # runs[r].todo)
            => store'[Head(runs[r].todo)].status = "completed"]_vars
  /\ [][\A i \in Ids :
          store'[i].status # store[i].status
            => \/ \E r \in DOMAIN reqs : /\ reqs[r].pc = "write" /\ reqs'[r].pc = "done"
                                          /\ reqs[r].id = i
               \/ \E r \in DOMAIN runs : /\ runs[r].pc = "save"
                                          /\ runs'[r].todo # runs[r].todo
                                          /\ Head(runs[r].todo) = i]_vars

\* The sweep has written the appointment it selected, and the cancellation
\* that loaded the appointment before that write has been saved after it:
\* the appointment is cancelled, and archived by the sweep.
C32_Witness ==
  \E i \in Ids :
    /\ store[i].status = "cancelled"
    /\ store[i].isArchived
    /\ \E r \in DOMAIN runs : i \in runs[r].selected /\ runs[r].pc = "done"
    /\ \E r \in DOMAIN reqs : /\ reqs[r].pc = "done" /\ reqs[r].op = "cancel"
                               /\ reqs[r].kind = "Cancelled"
    /\ \A r \in DOMAIN reqs : reqs[r].pc = "done" => reqs[r].op # "archive"

\* The first 01:00 after instant t
FirstSweepHourAfter(t) ==
  CHOOSE m \in {d * MinutesPerDay + 60 : d \in 0..(MaxDay + 1)} :
    /\ m > t
    /\ \A d \in 0..(MaxDay + 1) : d * MinutesPerDay + 60 > t => m <= d * MinutesPerDay + 60

\* C33: a replica's scheduler starts a run when it is initialised and sets its
\* timer to the first 01:00 after that instant; it starts one run when the
\* timer is due and moves the timer 24 hours on; it starts runs at no other
\* moment, one at a time.
C33_SweepSchedule ==
  [][\A p \in DOMAIN timers :
       /\ (Len(runs') > Len(runs) /\ runs'[Len(runs')].pod = p)
            => /\ Len(runs') = Len(runs) + 1
               /\ runs'[Len(runs')].yesterday = now - MinutesPerDay
               /\ \/ /\ timers[p] = NoTimer
                     /\ timers'[p] = FirstSweepHourAfter(now)
                  \/ /\ timers[p] # NoTimer
                     /\ now = timers[p]
                     /\ timers'[p] = timers[p] + 24 * 60
       /\ timers'[p] # timers[p]
            => Len(runs') > Len(runs) /\ runs'[Len(runs')].pod = p]_vars

\* One replica has started a run at its initialisation and a second run at
\* the first 01:00 after it; its timer is due 24 hours after that run.
C33_Witness ==
  /\ Len(runs) = 2
  /\ runs[1].pod = runs[2].pod
  /\ runs[2].yesterday + MinutesPerDay = FirstSweepHourAfter(runs[1].yesterday + MinutesPerDay)
  /\ timers[runs[1].pod] = runs[2].yesterday + 2 * MinutesPerDay

\* Appointment i is confirmed, not archived and dated before the cutoff of a
\* run that is under way or that the replica's timer starts while the clock
\* of the model still runs.
DueForSweep(i) ==
  /\ i \in Ids
  /\ store[i].status = "confirmed"
  /\ ~store[i].isArchived
  /\ \/ \E r \in DOMAIN runs : runs[r].pc = "find" /\ store[i].date < runs[r].yesterday
     \/ /\ timers[1] # NoTimer
        /\ timers[1] = now
        /\ store[i].date < now - MinutesPerDay

\* C34: with timers that fire and a store that answers, an appointment that
\* is confirmed, not archived and dated before the cutoff of a run is later
\* completed and archived, or cancelled by another operation: it does not
\* stay confirmed.
C34_SweptEventually ==
  \A i \in 1..MaxAppts :
    DueForSweep(i)
      ~> (i \in Ids /\ \/ store[i].status = "completed" /\ store[i].isArchived
                       \/ store[i].status \in {"cancelled", "no-show"})

\* The run that the timer started at 01:00 of day 2 selected the appointment
\* of day 1 and has returned; the appointment is completed and archived.
C34_Witness ==
  /\ Len(runs) = 2
  /\ runs[2].pc = "done"
  /\ runs[2].yesterday + MinutesPerDay = FirstSweepHourAfter(runs[1].yesterday + MinutesPerDay)
  /\ runs[2].selected = {1}
  /\ store[1].status = "completed" /\ store[1].isArchived

\* C35: whatever the interleaving of the handlers' and the sweep's reads and
\* writes, an archived appointment is completed, cancelled or no-show.
C35_ArchivedIsTerminal ==
  \A i \in Ids :
    store[i].isArchived => store[i].status \in {"completed", "cancelled", "no-show"}

\* C36: an archived appointment stays archived: no edit, status change,
\* cancellation, archival or sweep run sets isArchived back to false.
C36_ArchivedForGood ==
  [][\A i \in Ids : store[i].isArchived => store'[i].isArchived]_vars

\* An archived appointment has just been cancelled, and is still archived.
C36_Witness ==
  /\ resp.op = "cancel"
  /\ resp.kind = "Cancelled"
  /\ \E i \in Ids : store[i].isArchived /\ store[i].status = "cancelled"

\* The answers of the four handlers that report success
Accepted == {"Created", "Updated", "Cancelled", "Archived"}

\* C37: a step in which createAppointment, updateAppointment,
\* cancelAppointment or archiveAppointment answers with an error leaves the
\* store as it was: nothing created, no field of any appointment changed.
C37_RejectedChangesNothing ==
  [][(/\ resp'.op \in {"create", "update", "cancel", "archive"}
      /\ resp'.kind \notin Accepted)
       => store' = store]_vars

\* A status request on a stored, confirmed appointment has just been refused
\* as an invalid transition.
C37_Witness ==
  /\ resp.op = "update"
  /\ resp.kind = "InvalidTransition"
  /\ \E i \in Ids : store[i].status = "confirmed" /\ ~store[i].isArchived

====
